---- MODULE Spec2Model ----
(***************************************************************************)
(* Model of the claude-pdf2q backend: the upload endpoint, the background  *)
(* pipeline PDFProcessor.process_pdf, Structure Recovery, Question         *)
(* Extraction and the page-to-chapter resolver.                            *)
(*                                                                         *)
(* Strings are sequences of one-character strings, so that the regular     *)
(* expressions and the str methods of the source are computed character by *)
(* character.                                                              *)
(***************************************************************************)
EXTENDS Integers, Sequences, FiniteSets, TLC

(***************************************************************************)
(* Characters and the str methods used by the source                       *)
(***************************************************************************)
NL == "\n"

UpperChars == <<"A","B","C","D","E","F","G","H","I","J","K","L","M",
                "N","O","P","Q","R","S","T","U","V","W","X","Y","Z">>

LowerChars == <<"a","b","c","d","e","f","g","h","i","j","k","l","m",
                "n","o","p","q","r","s","t","u","v","w","x","y","z">>

Digits == {"0","1","2","3","4","5","6","7","8","9"}

IsDigit(c) == c \in Digits

IsUpper(c) == \E i \in 1..26 : UpperChars[i] = c

IsLower(c) == \E i \in 1..26 : LowerChars[i] = c

IsAlpha(c) == IsUpper(c) \/ IsLower(c)

\* \s of the re module, restricted to the whitespace that page text holds
IsSpace(c) == c \in {" ", NL, "\t"}

\* \w of the re module
IsWord(c) == IsAlpha(c) \/ IsDigit(c) \/ c = "_"

LowerChar(c) == IF IsUpper(c) THEN LowerChars[CHOOSE i \in 1..26 : UpperChars[i] = c] ELSE c

UpperChar(c) == IF IsLower(c) THEN UpperChars[CHOOSE i \in 1..26 : LowerChars[i] = c] ELSE c

\* str.lower()
Lower(s) == [i \in 1..Len(s) |-> LowerChar(s[i])]

\* s[a:b] with 0-based Python indices already clipped to 0..len(s)
Slice(s, a, b) == IF b <= a THEN << >> ELSE SubSeq(s, a + 1, b)

\* str.strip()
Strip(s) ==
    LET keep == {i \in 1..Len(s) : ~IsSpace(s[i])}
    IN  IF keep = {} THEN << >>
        ELSE SubSeq(s, CHOOSE i \in keep : \A j \in keep : i <= j,
                       CHOOSE i \in keep : \A j \in keep : j <= i)

\* sub occurs in s starting at 0-based offset k
OccursAt(s, sub, k) ==
    /\ k >= 0
    /\ k + Len(sub) <= Len(s)
    /\ \A j \in 1..Len(sub) : s[k + j] = sub[j]

\* the "in" operator on str
Contains(s, sub) == \E k \in 0..Len(s) : OccursAt(s, sub, k)

\* str.find(): the lowest offset, -1 when absent
Find(s, sub) ==
    LET ks == {k \in 0..Len(s) : OccursAt(s, sub, k)}
    IN  IF ks = {} THEN -1 ELSE CHOOSE k \in ks : \A j \in ks : k <= j

\* str.startswith() and str.endswith()
StartsWith(s, sub) == OccursAt(s, sub, 0)

EndsWith(s, sub) == OccursAt(s, sub, Len(s) - Len(sub))

\* str.count() of a single character
CountChar(s, c) == Cardinality({i \in 1..Len(s) : s[i] = c})

\* str.split('\n'): the lines between the newline characters
RECURSIVE SplitLines(_)
SplitLines(s) ==
    LET nls == {i \in 1..Len(s) : s[i] = NL}
        Cut(k) == <<SubSeq(s, 1, k - 1)>> \o SplitLines(SubSeq(s, k + 1, Len(s)))
    IN  IF nls = {} THEN <<s>>
        ELSE Cut(CHOOSE i \in nls : \A j \in nls : i <= j)

\* len(str.split()): the number of maximal runs of non-whitespace
WordCount(s) ==
    Cardinality({i \in 1..Len(s) : ~IsSpace(s[i]) /\ (i = 1 \/ IsSpace(s[i - 1]))})

\* int() of a run of decimal digits
DigitVal(c) == CHOOSE n \in 0..9 : <<"0","1","2","3","4","5","6","7","8","9">>[n + 1] = c

RECURSIVE ToInt(_)
ToInt(s) == IF s = << >> THEN 0 ELSE 10 * ToInt(SubSeq(s, 1, Len(s) - 1)) + DigitVal(s[Len(s)])

\* str() of a natural number
RECURSIVE Str(_)
Str(n) ==
    IF n < 10 THEN <<(<<"0","1","2","3","4","5","6","7","8","9">>)[n + 1]>>
    ELSE Str(n \div 10) \o <<(<<"0","1","2","3","4","5","6","7","8","9">>)[(n % 10) + 1]>>

\* the character at 0-based offset p, "" past the end
At(s, p) == IF p >= 0 /\ p < Len(s) THEN s[p + 1] ELSE ""

\* the least and the greatest element of a set of integers, d when the set
\* is empty
MinOf(S, d) == IF S = {} THEN d ELSE CHOOSE x \in S : \A y \in S : x <= y

MaxOf(S, d) == IF S = {} THEN d ELSE CHOOSE x \in S : \A y \in S : y <= x

\* the elements of a list
Range(f) == {f[i] : i \in DOMAIN f}

\* min() of two integers
Min(a, b) == IF a < b THEN a ELSE b

\* length of the maximal run of characters of a class that starts at offset p
DigitRun(s, p) ==
    MinOf({q \in p..(IF p > Len(s) THEN p ELSE Len(s)) : ~IsDigit(At(s, q))}, p) - p

SpaceRun(s, p) ==
    MinOf({q \in p..(IF p > Len(s) THEN p ELSE Len(s)) : ~IsSpace(At(s, q))}, p) - p

\* ^ under re.MULTILINE
AtLineStart(s, p) == p = 0 \/ At(s, p - 1) = NL

\* $ under re.MULTILINE
AtLineEnd(s, p) == p = Len(s) \/ At(s, p) = NL

\* a literal under re.IGNORECASE
OccursAtNoCase(s, sub, k) == OccursAt(Lower(s), Lower(sub), k)

(***************************************************************************)
(* QuestionExtractor (question_extractor.py)                               *)
(*                                                                         *)
(* A candidate is a record; number None is the empty sequence (a captured  *)
(* number is never empty).                                                 *)
(***************************************************************************)
None == << >>

NoMatch == [ok |-> FALSE, gs |-> 0, ge |-> 0, end |-> 0]

\* A\s+B searched anywhere in s
SearchGap(s, A, B) ==
    \E k \in 0..Len(s) :
        /\ OccursAt(s, A, k)
        /\ \E w \in 1..SpaceRun(s, k + Len(A)) : OccursAt(s, B, k + Len(A) + w)

\* the header tests of exercise_section_patterns, in list order
ExerciseHeader(tl) ==
    \/ Contains(tl, <<"e","x","e","r","c","i","s","e">>)
    \/ Contains(tl, <<"p","r","o","b","l","e","m">>)
    \/ SearchGap(tl, <<"r","e","v","i","e","w">>, <<"q","u","e","s","t","i","o","n">>)
    \/ SearchGap(tl, <<"p","r","a","c","t","i","c","e">>, <<"p","r","o","b","l","e","m">>)
    \/ Contains(tl, <<"h","o","m","e","w","o","r","k">>)
    \/ Contains(tl, <<"a","s","s","i","g","n","m","e","n","t">>)
    \/ SearchGap(tl, <<"s","t","u","d","y">>, <<"q","u","e","s","t","i","o","n">>)
    \/ SearchGap(tl, <<"d","i","s","c","u","s","s","i","o","n">>, <<"q","u","e","s","t","i","o","n">>)

\* question_count / len(text.split()) > 0.05, in integers
_is_exercise_section(text) ==
    \/ ExerciseHeader(Lower(text))
    \/ /\ CountChar(text, "?") >= 3
       /\ Len(text) > 0
       /\ 100 * CountChar(text, "?") > 5 * WordCount(text)

\* re.match(r'^(\d+)[\.\)]\s+(.*)', line) on a stripped line
QuestionStart(line) ==
    LET Groups(d, w) ==
            IF d >= 1 /\ At(line, d) \in {".", ")"} /\ w >= 1
            THEN [ok |-> TRUE, number |-> Slice(line, 0, d),
                  rest |-> Slice(line, d + 1 + w, Len(line))]
            ELSE [ok |-> FALSE, number |-> None, rest |-> << >>]
    IN  Groups(DigitRun(line, 0), SpaceRun(line, DigitRun(line, 0) + 1))

\* a flush that forgets the test for '?'
FlushUnchecked(questions, current_question, question_number) ==
    IF current_question # << >>
    THEN Append(questions, [text |-> Strip(current_question), number |-> question_number])
    ELSE questions

\* the flush of the question buffer (lines 148-152 and 163-167)
Flush(questions, current_question, question_number) ==
    IF current_question # << >> /\ Contains(current_question, <<"?">>)
    THEN Append(questions, [text |-> Strip(current_question), number |-> question_number])
    ELSE questions

\* the loop over the lines, from line i on, and the final flush
RECURSIVE ExerciseLoop(_, _, _, _, _)
ExerciseLoop(lines, i, questions, current_question, question_number) ==
    LET Step(line, m) ==
            IF line = << >>
            THEN <<questions, current_question, question_number>>
            ELSE IF m.ok
            THEN <<Flush(questions, current_question, question_number), m.rest, m.number>>
            ELSE IF current_question # << >>
            THEN <<questions, current_question \o <<" ">> \o line, question_number>>
            ELSE <<questions, current_question, question_number>>
        Line(line) == Step(line, QuestionStart(line))
        Go(st) == ExerciseLoop(lines, i + 1, st[1], st[2], st[3])
    IN  IF i > Len(lines) THEN Flush(questions, current_question, question_number)
        ELSE Go(Line(Strip(lines[i])))

_extract_from_exercise_section(text, lines) == ExerciseLoop(lines, 1, << >>, << >>, None)

\* (.+?\?) from offset g: at least one character other than a newline, then
\* the nearest '?' on the same line; the offset after it, -1 when none
LazyEnd(s, g) ==
    MinOf({q \in (g + 1)..(Len(s) - 1) :
              /\ At(s, q) = "?"
              /\ \A r \in g..(q - 1) : At(s, r) # NL}, -2) + 1

\* the match whose group runs from offset gs to offset e, none when e = -1
Match(gs, e) ==
    IF e = -1 THEN NoMatch ELSE [ok |-> TRUE, gs |-> gs, ge |-> e, end |-> e]

\* the group taken after w characters of whitespace from offset c
TailFrom(s, c, w) == IF w = 0 THEN NoMatch ELSE Match(c + w, LazyEnd(s, c + w))

\* \s+(.+?\?) from offset c: the greedy \s+ gives whitespace back until the
\* group matches
TailMatch(s, c) ==
    TailFrom(s, c, MaxOf({w \in 1..SpaceRun(s, c) : LazyEnd(s, c + w) # -1}, 0))

\* \b\d+<punct>\s+(.+?\?) at offset i (patterns 1 and 2)
NumberedAt(s, i, punct) ==
    IF /\ i = 0 \/ ~IsWord(At(s, i - 1))
       /\ DigitRun(s, i) >= 1
       /\ At(s, i + DigitRun(s, i)) = punct
    THEN TailMatch(s, i + DigitRun(s, i) + 1)
    ELSE NoMatch

\* the offset after [:\.]? tried at offset b
AfterSep(s, b) == IF At(s, b) \in {":", "."} THEN b + 1 ELSE b

\* ^Q\d*[:\.]?\s+(.+?\?) at offset i (pattern 3)
QPrefixAt(s, i) ==
    IF AtLineStart(s, i) /\ LowerChar(At(s, i)) = "q"
    THEN TailMatch(s, AfterSep(s, i + 1 + DigitRun(s, i + 1)))
    ELSE NoMatch

\* ^Question\s+\d*[:\.]?\s+(.+?\?) at offset i (pattern 4): the first \s+
\* gives whitespace back until the rest matches
QuestionRest(s, a) == TailMatch(s, AfterSep(s, a + DigitRun(s, a)))

QuestionPrefixAt(s, i) ==
    LET Rest(w) == IF w = 0 THEN NoMatch ELSE QuestionRest(s, i + 8 + w)
    IN  IF /\ AtLineStart(s, i)
           /\ OccursAtNoCase(s, <<"q","u","e","s","t","i","o","n">>, i)
        THEN Rest(MaxOf({w \in 1..SpaceRun(s, i + 8) : QuestionRest(s, i + 8 + w).ok}, 0))
        ELSE NoMatch

\* ^\d+\.\d+\s+(.+?\?) at offset i (pattern 5)
DottedAt(s, i) ==
    LET Frac(a) == IF At(s, a - 1) = "." /\ DigitRun(s, a) >= 1
                   THEN TailMatch(s, a + DigitRun(s, a))
                   ELSE NoMatch
    IN  IF AtLineStart(s, i) /\ DigitRun(s, i) >= 1
        THEN Frac(i + DigitRun(s, i) + 1)
        ELSE NoMatch

\* ^[A-Z][^.!?]*\?$ at offset i (pattern 6, no group: group(0) is the match);
\* the negated class also runs over newlines
StandaloneAt(s, i) ==
    LET Ends(j) == IF At(s, j) = "?" /\ AtLineEnd(s, j + 1)
                   THEN [ok |-> TRUE, gs |-> i, ge |-> j + 1, end |-> j + 1]
                   ELSE NoMatch
    IN  IF AtLineStart(s, i) /\ IsAlpha(At(s, i))
        THEN Ends(MinOf({q \in (i + 1)..Len(s) : At(s, q) \in {".", "!", "?", ""}}, Len(s)))
        ELSE NoMatch

NumPatterns == 6

\* question_patterns[k - 1] tried at offset i
PatternAt(k, s, i) ==
    CASE k \in {1, 2} -> NumberedAt(s, i, IF k = 1 THEN "." ELSE ")")
      [] k = 3 -> QPrefixAt(s, i)
      [] k = 4 -> QuestionPrefixAt(s, i)
      [] k = 5 -> DottedAt(s, i)
      [] k = 6 -> StandaloneAt(s, i)

\* re.finditer: the leftmost match at or after pos, then on from its end;
\* yields the stripped question_text of every match
RECURSIVE FindIter(_, _, _)
FindIter(k, s, pos) ==
    LET Emit(m) == <<Strip(Slice(s, m.gs, m.ge))>> \o FindIter(k, s, m.end)
        From(i) == IF i = -1 THEN << >> ELSE Emit(PatternAt(k, s, i))
    IN  From(MinOf({i \in pos..(Len(s) - 1) : PatternAt(k, s, i).ok}, -1))

question_words == << <<"w","h","a","t">>, <<"h","o","w">>, <<"w","h","y">>,
    <<"w","h","e","n">>, <<"w","h","e","r","e">>, <<"w","h","i","c","h">>,
    <<"w","h","o">>, <<"d","o","e","s">>, <<"i","s">>, <<"a","r","e">>,
    <<"c","a","n">>, <<"w","i","l","l">>, <<"w","o","u","l","d">>,
    <<"s","h","o","u","l","d">> >>

educational_keywords == << <<"c","h","a","p","t","e","r">>, <<"s","e","c","t","i","o","n">>,
    <<"e","x","e","r","c","i","s","e">>, <<"p","r","o","b","l","e","m">>,
    <<"q","u","e","s","t","i","o","n">>, <<"r","e","v","i","e","w">>,
    <<"p","r","a","c","t","i","c","e">>, <<"h","o","m","e","w","o","r","k">>,
    <<"a","s","s","i","g","n","m","e","n","t">>, <<"s","t","u","d","y">>,
    <<"d","i","s","c","u","s","s">>, <<"e","x","p","l","a","i","n">>,
    <<"d","e","s","c","r","i","b","e">>, <<"a","n","a","l","y","z","e">>,
    <<"c","o","m","p","a","r","e">> >>

MinQuestionLen == 10

_is_valid_question(text) ==
    LET Known(text_lower) ==
            \/ \E keyword \in Range(educational_keywords) : Contains(text_lower, keyword)
            \/ \E word \in Range(question_words) : StartsWith(text_lower, word)
    IN  /\ Len(text) >= MinQuestionLen
        /\ EndsWith(text, <<"?">>)
        /\ Known(Lower(text))

\* the valid matches of patterns k..6, in pattern order then match order
RECURSIVE ScatteredRaw(_, _)
ScatteredRaw(k, text) ==
    IF k > NumPatterns THEN << >>
    ELSE SelectSeq(FindIter(k, text, 0), _is_valid_question) \o ScatteredRaw(k + 1, text)

KeyLen == 50

\* question['text'][:50].lower()
DedupKey(text) == Lower(Slice(text, 0, IF Len(text) < KeyLen THEN Len(text) ELSE KeyLen))

\* the duplicate removal (lines 192-200) from element i on
RECURSIVE Dedup(_, _, _, _)
Dedup(qs, i, seen_questions, unique_questions) ==
    LET Step(key) == IF key \in seen_questions
                     THEN Dedup(qs, i + 1, seen_questions, unique_questions)
                     ELSE Dedup(qs, i + 1, seen_questions \cup {key},
                                Append(unique_questions, qs[i]))
    IN  IF i > Len(qs) THEN unique_questions ELSE Step(DedupKey(qs[i]))

_extract_scattered_questions(text, lines) ==
    LET Candidates(unique) == [i \in 1..Len(unique) |-> [text |-> unique[i], number |-> None]]
    IN  Candidates(Dedup(ScatteredRaw(1, text), 1, {}, << >>))

\* a classifier that looks for the essay words before the true/false ones
ClassifyEssayFirst(question_text) ==
    LET Type(text_lower) ==
            IF \E indicator \in {<<"a",")">>, <<"b",")">>, <<"c",")">>, <<"d",")">>,
                                 <<"c","h","o","o","s","e">>, <<"s","e","l","e","c","t">>} :
                  Contains(text_lower, indicator)
            THEN "multiple_choice"
            ELSE IF \E indicator \in {<<"e","x","p","l","a","i","n">>,
                                      <<"d","e","s","c","r","i","b","e">>,
                                      <<"d","i","s","c","u","s","s">>,
                                      <<"a","n","a","l","y","z","e">>,
                                      <<"c","o","m","p","a","r","e">>,
                                      <<"c","o","n","t","r","a","s","t">>} :
                  Contains(text_lower, indicator)
            THEN "essay"
            ELSE IF \E indicator \in {<<"t","r","u","e"," ","o","r"," ","f","a","l","s","e">>,
                                      <<"t","/","f">>,
                                      <<"t","r","u","e","/","f","a","l","s","e">>} :
                  Contains(text_lower, indicator)
            THEN "true_false"
            ELSE "short_answer"
    IN  Type(Lower(question_text))

_classify_question_type(question_text) ==
    LET Type(text_lower) ==
            IF \E indicator \in {<<"a",")">>, <<"b",")">>, <<"c",")">>, <<"d",")">>,
                                 <<"c","h","o","o","s","e">>, <<"s","e","l","e","c","t">>} :
                  Contains(text_lower, indicator)
            THEN "multiple_choice"
            ELSE IF \E indicator \in {<<"t","r","u","e"," ","o","r"," ","f","a","l","s","e">>,
                                      <<"t","/","f">>,
                                      <<"t","r","u","e","/","f","a","l","s","e">>} :
                  Contains(text_lower, indicator)
            THEN "true_false"
            ELSE IF \E indicator \in {<<"e","x","p","l","a","i","n">>,
                                      <<"d","e","s","c","r","i","b","e">>,
                                      <<"d","i","s","c","u","s","s">>,
                                      <<"a","n","a","l","y","z","e">>,
                                      <<"c","o","m","p","a","r","e">>,
                                      <<"c","o","n","t","r","a","s","t">>} :
                  Contains(text_lower, indicator)
            THEN "essay"
            ELSE "short_answer"
    IN  Type(Lower(question_text))

ContextRadius == 200

_get_question_context(question_text, full_text) ==
    LET Around(question_index) ==
            IF question_index = -1 THEN << >>
            ELSE Strip(Slice(full_text,
                             IF question_index - ContextRadius > 0
                             THEN question_index - ContextRadius ELSE 0,
                             Min(Len(full_text),
                                 question_index + Len(question_text) + ContextRadius)))
    IN  Around(Find(full_text, question_text))

_extract_questions_from_page(text, page_num) ==
    LET Described(questions) ==
            [i \in 1..Len(questions) |->
                [text |-> questions[i].text,
                 number |-> questions[i].number,
                 context |-> _get_question_context(questions[i].text, text),
                 type |-> _classify_question_type(questions[i].text)]]
    IN  Described(IF _is_exercise_section(text)
                  THEN _extract_from_exercise_section(text, SplitLines(text))
                  ELSE _extract_scattered_questions(text, SplitLines(text)))

(***************************************************************************)
(* The page texts of the uploaded documents: PageLib[1] no text, [2] an    *)
(* exercise page, [3] a table of contents, [4] prose with a question, [5]  *)
(* a chapter heading.  The extraction functions are pure, so their results *)
(* on these texts are computed once and looked up.                         *)
(***************************************************************************)
PageLib == <<
    << >>,
    <<"E","x","e","r","c","i","s","e","s",NL,"1","."," ","W","h","a","t"," ","i","s"," ",
      "g","r","a","v","i","t","y","?",NL,"2","."," ","E","x","p","l","a","i","n"," ",
      "i","n","e","r","t","i","a"," ","i","n"," ","d","e","t","a","i","l",".">>,
    <<"C","o","n","t","e","n","t","s",NL,"1"," ","H","e","a","t",".",".","2",NL,
      "2"," ","L","i","g","h","t",".",".","1","1">>,
    <<"W","h","a","t"," ","i","s"," ","h","e","a","t","?">>,
    <<"C","h","a","p","t","e","r"," ","1"," ","H","e","a","t">> >>

\* the place of a page text in the library
PageIndex(text) == CHOOSE k \in 1..Len(PageLib) : PageLib[k] = text

\* the library pages as chunks pass them on, stripped
PageLibStripped == [k \in 1..Len(PageLib) |-> Strip(PageLib[k])]

PageLibQuestions ==
    [k \in 1..Len(PageLib) |-> _extract_questions_from_page(PageLibStripped[k], k)]

QuestionsOfPage(text, page_num) ==
    IF text \in Range(PageLibStripped)
    THEN PageLibQuestions[CHOOSE k \in 1..Len(PageLib) : PageLibStripped[k] = text]
    ELSE _extract_questions_from_page(text, page_num)

(***************************************************************************)
(* Structure Recovery (pdf_processor.py)                                   *)
(*                                                                         *)
(* A pdf is the sequence of its pages; a page is the text extract_text()   *)
(* returns for it, or Unreadable when extract_text() raises.  The label    *)
(* chapter_number is kept as its decimal text: str(int(...)) of a level-1  *)
(* number, the dotted number itself at level 2.                            *)
(***************************************************************************)
Unreadable == <<"unreadable">>

\* str.title(): a letter is upper-cased unless it follows a letter
Title(s) ==
    [i \in 1..Len(s) |->
        IF i > 1 /\ IsAlpha(s[i - 1]) THEN LowerChar(s[i]) ELSE UpperChar(s[i])]

DotRun(s, p) ==
    MinOf({q \in p..(IF p > Len(s) THEN p ELSE Len(s)) : At(s, q) # "."}, p) - p

NoTitle == [ok |-> FALSE, ts |-> 0, te |-> 0, ps |-> 0, pe |-> 0]

\* ([^.]+?)\.{2,}(\d+) from offset ts: the title runs to the next dot, the
\* dots are the whole run, the page number the digits after it
TitleMatch(s, ts) ==
    LET Page(te, k) ==
            IF k >= 2 /\ DigitRun(s, te + k) >= 1
            THEN [ok |-> TRUE, ts |-> ts, te |-> te, ps |-> te + k,
                  pe |-> te + k + DigitRun(s, te + k)]
            ELSE NoTitle
        Dots(te) == IF te = -1 THEN NoTitle ELSE Page(te, DotRun(s, te))
    IN  IF ts < Len(s) /\ At(s, ts) # "."
        THEN Dots(MinOf({q \in (ts + 1)..(Len(s) - 1) : At(s, q) = "."}, -1))
        ELSE NoTitle

\* the offset after \.? when the number ends at offset b
AfterDot(s, b) == IF At(s, b) = "." THEN b + 1 ELSE b

\* \s*([^.]+?)\.{2,}(\d+) from offset c: the greedy \s* gives whitespace
\* back until the title matches
ChapterTitle(l, c) ==
    TitleMatch(l, c + MaxOf({w \in 0..SpaceRun(l, c) : TitleMatch(l, c + w).ok}, 0))

\* re.match(r'(?:chapter\s+)?(\d+)\.?\s*([^.]+?)\.{2,}(\d+)', l): the greedy
\* (\d+) and \s* give characters back, longest first, until the rest matches
ChapterMatch(l) ==
    LET Entry(p, d, t) ==
            IF d = 0 THEN [ok |-> FALSE]
            ELSE [ok |-> TRUE,
                  entry |-> [chapter_number |-> Str(ToInt(Slice(l, p, p + d))),
                             title |-> Title(Strip(Slice(l, t.ts, t.te))),
                             page_start |-> ToInt(Slice(l, t.ps, t.pe)),
                             level |-> 1]]
        Number(p, d) == Entry(p, d, ChapterTitle(l, AfterDot(l, p + d)))
        From(p) == Number(p, MaxOf({d \in 1..DigitRun(l, p) :
                                       ChapterTitle(l, AfterDot(l, p + d)).ok}, 0))
    IN  From(IF StartsWith(l, <<"c","h","a","p","t","e","r">>) /\ SpaceRun(l, 7) >= 1
             THEN 7 + SpaceRun(l, 7) ELSE 0)

\* re.match(r'\s+(\d+\.\d+)\s+([^.]+?)\.{2,}(\d+)', line)
SubchapterMatch(line) ==
    LET Entry(w0, c, t) ==
            IF t.ok
            THEN [ok |-> TRUE,
                  entry |-> [chapter_number |-> Slice(line, w0, c),
                             title |-> Title(Strip(Slice(line, t.ts, t.te))),
                             page_start |-> ToInt(Slice(line, t.ps, t.pe)),
                             level |-> 2]]
            ELSE [ok |-> FALSE]
        After(c, w) == IF w = 0 THEN NoTitle ELSE TitleMatch(line, c + w)
        Rest(w0, c) ==
            Entry(w0, c, After(c, MaxOf({w \in 1..SpaceRun(line, c) :
                                            TitleMatch(line, c + w).ok}, 0)))
        Frac(w0, a) == IF At(line, a - 1) = "." /\ DigitRun(line, a) >= 1
                       THEN Rest(w0, a + DigitRun(line, a))
                       ELSE [ok |-> FALSE]
        Number(w0) == IF w0 >= 1 /\ DigitRun(line, w0) >= 1
                      THEN Frac(w0, w0 + DigitRun(line, w0) + 1)
                      ELSE [ok |-> FALSE]
    IN  Number(SpaceRun(line, 0))

\* the entries one line adds (lines 119-158): the line is stripped before
\* both matches
TocLineEntries(rawline) ==
    LET Both(chapter_match, subchapter_match) ==
            (IF chapter_match.ok THEN <<chapter_match.entry>> ELSE << >>)
            \o (IF subchapter_match.ok THEN <<subchapter_match.entry>> ELSE << >>)
        Of(line) == IF line = << >> THEN << >>
                    ELSE Both(ChapterMatch(Lower(line)), SubchapterMatch(line))
    IN  Of(Strip(rawline))

RECURSIVE TocLines(_, _)
TocLines(lines, i) ==
    IF i > Len(lines) THEN << >>
    ELSE TocLineEntries(lines[i]) \o TocLines(lines, i + 1)

toc_indicators == << <<"t","a","b","l","e"," ","o","f"," ","c","o","n","t","e","n","t","s">>,
    <<"c","o","n","t","e","n","t","s">>, <<"c","h","a","p","t","e","r">>,
    <<"s","e","c","t","i","o","n">> >>

HasTocIndicator(text) ==
    \E indicator \in Range(toc_indicators) : Contains(Lower(text), indicator)

TocScanPages == 20

HeadingScanPages == 50

\* the four chapter_patterns, matched on the lower-cased stripped line
HeadingWord(l, word) ==
    /\ StartsWith(l, word)
    /\ SpaceRun(l, Len(word)) >= 1
    /\ DigitRun(l, Len(word) + SpaceRun(l, Len(word))) >= 1

\* ^\s*(\d+)\.\s+[A-Z][^.]*$
HeadingNumbered(l) ==
    LET Rest(d, w) ==
            /\ d >= 1
            /\ At(l, d) = "."
            /\ w >= 1
            /\ IsUpper(At(l, d + 1 + w))
            /\ \A q \in (d + 2 + w)..(Len(l) - 1) : At(l, q) # "."
    IN  Rest(DigitRun(l, 0), SpaceRun(l, DigitRun(l, 0) + 1))

IsHeading(l) ==
    \/ HeadingWord(l, <<"c","h","a","p","t","e","r">>)
    \/ HeadingNumbered(l)
    \/ HeadingWord(l, <<"u","n","i","t">>)
    \/ HeadingWord(l, <<"s","e","c","t","i","o","n">>)

MinHeadingLen == 5

MaxHeadingLen == 100

\* the heading lines of one page (lines 193-202), stripped
HeadingLines(text) ==
    LET Stripped(lines) == [i \in 1..Len(lines) |-> Strip(lines[i])]
    IN  SelectSeq(Stripped(SplitLines(text)),
                  LAMBDA line : /\ Len(line) >= MinHeadingLen
                                /\ Len(line) <= MaxHeadingLen
                                /\ IsHeading(Lower(line)))

PageLibHeadings == [k \in 1..Len(PageLib) |-> HeadingLines(PageLib[k])]

HeadingsOfPage(text) ==
    IF text \in Range(PageLib) THEN PageLibHeadings[PageIndex(text)] ELSE HeadingLines(text)

\* a heading loop that numbers the pages from 0, as enumerate does
RECURSIVE InferLoopZeroBased(_, _, _)
InferLoopZeroBased(pdf, n, chapters) ==
    LET Add(heads) ==
            chapters \o [i \in 1..Len(heads) |->
                            [chapter_number |-> Str(Len(chapters) + i),
                             title |-> Title(heads[i]),
                             page_start |-> n - 1,
                             level |-> 1]]
    IN  IF n > Min(HeadingScanPages, Len(pdf)) \/ pdf[n] = Unreadable THEN chapters
        ELSE InferLoopZeroBased(pdf, n + 1, Add(HeadingsOfPage(pdf[n])))

\* the loop over pdf.pages[:50] from page n on; a raise inside the
\* with-block is caught and the chapters found so far are returned
RECURSIVE InferLoop(_, _, _)
InferLoop(pdf, n, chapters) ==
    LET Add(heads) ==
            chapters \o [i \in 1..Len(heads) |->
                            [chapter_number |-> Str(Len(chapters) + i),
                             title |-> Title(heads[i]),
                             page_start |-> n,
                             level |-> 1]]
    IN  IF n > Min(HeadingScanPages, Len(pdf)) \/ pdf[n] = Unreadable THEN chapters
        ELSE InferLoop(pdf, n + 1, Add(HeadingsOfPage(pdf[n])))

\* opens is FALSE when pdfplumber.open raises
_infer_chapters_from_headings(pdf, opens) ==
    IF opens THEN InferLoop(pdf, 1, << >>) ELSE << >>

\* the entries one page adds (lines 103-158): none without text or without
\* a TOC indicator
TocPageEntries(text) ==
    IF text # << >> /\ HasTocIndicator(text) THEN TocLines(SplitLines(text), 1) ELSE << >>

PageLibToc == [k \in 1..Len(PageLib) |-> TocPageEntries(PageLib[k])]

TocEntriesOfPage(text) ==
    IF text \in Range(PageLib) THEN PageLibToc[PageIndex(text)] ELSE TocPageEntries(text)

\* a scan without the break of lines 160-161: the entries of all the pages
\* it reads are merged
RECURSIVE TocLoopMerging(_, _)
TocLoopMerging(pdf, n) ==
    LET Found(entries, rest) ==
            [raised |-> rest.raised,
             toc_entries |-> IF rest.raised THEN << >> ELSE entries \o rest.toc_entries]
    IN  IF n > Min(TocScanPages, Len(pdf)) THEN [raised |-> FALSE, toc_entries |-> << >>]
        ELSE IF pdf[n] = Unreadable THEN [raised |-> TRUE, toc_entries |-> << >>]
        ELSE Found(TocEntriesOfPage(pdf[n]), TocLoopMerging(pdf, n + 1))

\* the loop over the first 20 pages from page n on (lines 99-161); raised
\* tells that extract_text() raised, which skips the fallback of line 164
RECURSIVE TocLoop(_, _)
TocLoop(pdf, n) ==
    LET Found(entries) == IF entries # << >>
                          THEN [raised |-> FALSE, toc_entries |-> entries]
                          ELSE TocLoop(pdf, n + 1)
    IN  IF n > Min(TocScanPages, Len(pdf)) THEN [raised |-> FALSE, toc_entries |-> << >>]
        ELSE IF pdf[n] = Unreadable THEN [raised |-> TRUE, toc_entries |-> << >>]
        ELSE Found(TocEntriesOfPage(pdf[n]))

\* opens, opens2: whether the pdfplumber.open of line 97 and of line 185 succeed
_extract_table_of_contents(pdf, opens, opens2) ==
    LET Result(scan) ==
            IF ~opens \/ scan.raised THEN << >>
            ELSE IF scan.toc_entries # << >> THEN scan.toc_entries
            ELSE _infer_chapters_from_headings(pdf, opens2)
    IN  Result(TocLoop(pdf, 1))

(***************************************************************************)
(* The uploaded documents                                                  *)
(*                                                                         *)
(* An uploaded file is a sequence of page kinds.  Kind 0 is a page whose   *)
(* extract_text() raises, kind k > 0 a page with the text PageLib[k].      *)
(***************************************************************************)
EmptyKind == 1

chunk_size == 10

\* bound of the documents: the pages of a file
MaxPages == 11

\* the pages that may be other than empty: the first two, and the two on
\* either side of the first chunk border
SpecialSlots == {1, 2, chunk_size, chunk_size + 1}

DocsOfLen(n) ==
    {[p \in 1..n |-> IF p \in DOMAIN f THEN f[p] ELSE EmptyKind] :
        f \in [SpecialSlots \cap (1..n) -> 0..Len(PageLib)]}

Docs == UNION {DocsOfLen(n) : n \in 0..MaxPages}

PageOf(kind) == IF kind = 0 THEN Unreadable ELSE PageLib[kind]

\* what pdfplumber.open(file_path).pages yields for a stored file
Pdf(f) == [p \in 1..Len(f) |-> PageOf(f[p])]

(***************************************************************************)
(* The store, the resolver and the chunk step                              *)
(***************************************************************************)
\* a rollback that also loses the rows committed before
CommitRowsLosingAll(stored, batch, commit_ok) == IF commit_ok THEN stored \o batch ELSE << >>

\* Session.commit() of a batch of added rows; a failed commit is followed
\* by the rollback of the caller (lines 84-86, 238-240), which drops the batch
CommitRows(stored, batch, commit_ok) == IF commit_ok THEN stored \o batch ELSE stored

\* _store_chapters: one Chapter row per entry, ids in insertion order
_store_chapters(stored, toc_entries, commit_ok) ==
    CommitRows(stored,
               [i \in 1..Len(toc_entries) |->
                   [id |-> Len(stored) + i,
                    title |-> toc_entries[i].title,
                    chapter_number |-> toc_entries[i].chapter_number,
                    page_start |-> toc_entries[i].page_start,
                    level |-> toc_entries[i].level]],
               commit_ok)

\* a query without its ORDER BY
ResolveSetUnordered(chs, page_num) ==
    LET ok == {i \in 1..Len(chs) : chs[i].page_start <= page_num}
    IN  IF ok = {} THEN {0} ELSE {chs[i].id : i \in ok}

\* a query that orders by page_start ascending
ResolveSetAscending(chs, page_num) ==
    LET ok == {i \in 1..Len(chs) : chs[i].page_start <= page_num}
        low == {i \in ok : \A j \in ok : chs[j].page_start >= chs[i].page_start}
    IN  IF ok = {} THEN {0} ELSE {chs[i].id : i \in low}

\* the rows the query of _find_chapter_for_page may return first: those of
\* the greatest page_start <= page_num (the ORDER BY leaves ties open);
\* id 0 is no chapter
ResolveSet(chs, page_num) ==
    LET ok == {i \in 1..Len(chs) : chs[i].page_start <= page_num}
        top == {i \in ok : \A j \in ok : chs[j].page_start <= chs[i].page_start}
    IN  IF ok = {} THEN {0} ELSE {chs[i].id : i \in top}

\* _find_chapter_for_page: a raising query is caught and gives no chapter
_find_chapter_for_page(chs, page_num) == ResolveSet(chs, page_num) \cup {0}

\* a text extraction that also raises on a page without text
ChunkRaisesOnEmpty(pdf, start_page, end_page) ==
    \E p \in (start_page + 1)..end_page : p <= Len(pdf) /\ pdf[p] \in {Unreadable, << >>}

\* whether _extract_text_chunk raises on pages start_page+1..end_page
ChunkRaises(pdf, start_page, end_page) ==
    \E p \in (start_page + 1)..end_page : p <= Len(pdf) /\ pdf[p] = Unreadable

\* text.strip() of a page, looked up for the library pages
StrippedPage(text) ==
    IF text \in Range(PageLib) THEN PageLibStripped[PageIndex(text)] ELSE Strip(text)

\* a text extraction that numbers the pages from 0, as range() does
ExtractTextChunkZeroBased(pdf, start_page, end_page) ==
    LET Pages(nums) ==
            [i \in 1..Len(nums) |->
                [page_number |-> nums[i] - 1, text |-> StrippedPage(pdf[nums[i]])]]
    IN  Pages(SelectSeq([i \in 1..(end_page - start_page) |-> start_page + i],
                        LAMBDA p : p <= Len(pdf) /\ pdf[p] # << >>))

\* _extract_text_chunk: the pages with text, stripped, in page order
_extract_text_chunk(pdf, start_page, end_page) ==
    LET Pages(nums) ==
            [i \in 1..Len(nums) |->
                [page_number |-> nums[i], text |-> StrippedPage(pdf[nums[i]])]]
    IN  Pages(SelectSeq([i \in 1..(end_page - start_page) |-> start_page + i],
                        LAMBDA p : p <= Len(pdf) /\ pdf[p] # << >>))

\* the Question rows of one page (lines 59-75)
PageRows(page_data, chapter_id) ==
    LET Rows(page_questions) ==
            [i \in 1..Len(page_questions) |->
                [chapter_id |-> chapter_id,
                 question_text |-> page_questions[i].text,
                 question_type |-> page_questions[i].type,
                 page_number |-> page_data.page_number,
                 context |-> page_questions[i].context]]
    IN  Rows(QuestionsOfPage(page_data.text, page_data.page_number))

\* the rows added for pages i.. of the chunk; res gives the chapter found
\* for each page
RECURSIVE ChunkRows(_, _, _)
ChunkRows(pages_text, i, res) ==
    IF i > Len(pages_text) THEN << >>
    ELSE (IF pages_text[i].text = << >> THEN << >>
          ELSE PageRows(pages_text[i], res[pages_text[i].page_number]))
         \o ChunkRows(pages_text, i + 1, res)

\* an extraction that commits after the first page of the chunk and stops
ExtractCommittingFirstPage(stored, pages_text, res, commit_ok) ==
    LET Batch(rows) == [stored |-> CommitRows(stored, rows, commit_ok),
                        rolled_back |-> rows # << >> /\ ~commit_ok]
    IN  Batch(ChunkRows(SubSeq(pages_text, 1, Min(1, Len(pages_text))), 1, res))

\* extract_questions_from_text: the stored questions after the call
extract_questions_from_text(stored, pages_text, res, commit_ok) ==
    LET Batch(rows) == [stored |-> CommitRows(stored, rows, commit_ok),
                        rolled_back |-> rows # << >> /\ ~commit_ok]
    IN  Batch(ChunkRows(pages_text, 1, res))

\* a loop that stops after its first chunk
LoopDoneAfterFirst(sp, tp) == sp >= tp \/ sp >= chunk_size

\* the loop test of line 44
LoopDone(sp, tp) == sp >= tp

\* a pipeline that starts on the chunks without recovering the structure
AfterMetadataSkippingOutline(commit_ok) == IF commit_ok THEN "loop" ELSE "handler"

\* where process_pdf goes after the commit of line 34
AfterMetadata(commit_ok) == IF commit_ok THEN "toc" ELSE "handler"

\* a completion after which the except clause still runs
AfterCompleteRaising(commit_ok) == "handler"

\* where process_pdf goes after the commit of line 57
AfterComplete(commit_ok) == IF commit_ok THEN "returned" ELSE "handler"

(***************************************************************************)
(* State                                                                   *)
(***************************************************************************)
VARIABLES
    pc,              \* position of the upload and of its background task
    file,            \* the stored file: its page kinds
    fileExists,      \* whether the file is on disk
    db_status,       \* the committed processing_status ("none": no record)
    db_total_pages,  \* the committed total_pages, -1 for NULL
    l_total_pages,   \* total_pages, local of process_pdf
    l_start_page,    \* start_page, loop variable of process_pdf
    db_chapters,     \* the committed Chapter rows
    db_questions,    \* the committed Question rows
    result,          \* what process_pdf returned: "none", "true", "false"
    fault,           \* the exception that entered the except clause of line 61
    trace,           \* the steps of process_pdf taken so far, in order
    extracted,       \* start pages handed to extract_questions_from_text
    rolled_back,     \* batches whose commit failed: 0 the outline, else start page
    page_text,       \* input of a single-page extraction
    candidates,      \* its result
    extract_done,    \* whether it has run
    res_outline,     \* the Chapter rows of the document a page is resolved in
    res_pages,       \* the page numbers handed to _find_chapter_for_page, in order
    res_chapters,    \* what it returned for each: a Chapter id, 0 for None
    res_raised,      \* for each, whether its query raised
    sr_pdf,          \* the pages of a file handed to _extract_table_of_contents
    sr_outline,      \* the entries it returned
    sr_source,       \* where they came from: "toc", "headings", "none"; "" before the call
    sr_opened,       \* whether the pdfplumber.open of line 97 succeeded
    cls_text,        \* a question text handed to _classify_question_type
    cls_type,        \* the type it returned, "" before the call
    pc2,             \* position of a second upload request with the same file_path
    polled           \* the last answer of get_processing_status, "" before any

vars == <<pc, file, fileExists, db_status, db_total_pages, l_total_pages, l_start_page,
          db_chapters, db_questions, result, fault, trace, extracted, rolled_back,
          page_text, candidates, extract_done,
          res_outline, res_pages, res_chapters, res_raised,
          sr_pdf, sr_outline, sr_source, sr_opened, cls_text, cls_type,
          pc2, polled>>

pipeVars == <<pc, file, fileExists, db_status, db_total_pages, l_total_pages, l_start_page,
              db_chapters, db_questions, result, fault, trace, extracted, rolled_back>>

pageVars == <<page_text, candidates, extract_done>>

resolveVars == <<res_outline, res_pages, res_chapters, res_raised>>

recoverVars == <<sr_pdf, sr_outline, sr_source, sr_opened>>

classifyVars == <<cls_text, cls_type>>

\* the state of the single calls, which the pipeline leaves alone
callVars == <<pageVars, resolveVars, recoverVars, classifyVars>>

\* the second upload request and the status endpoint
serverVars == <<pc2, polled>>

\* no other request is under way
InitServerIdle ==
    /\ pc2 = "idle"
    /\ polled = ""

\* no single call of the resolver is under way
InitResolveIdle ==
    /\ res_outline = << >>
    /\ res_pages = << >>
    /\ res_chapters = << >>
    /\ res_raised = << >>

\* no single call of Structure Recovery is under way
InitRecoverIdle ==
    /\ sr_pdf = << >>
    /\ sr_outline = << >>
    /\ sr_source = ""
    /\ sr_opened = FALSE

\* no single call of the classifier is under way
InitClassifyIdle ==
    /\ cls_text = << >>
    /\ cls_type = ""

InitPipe ==
    /\ pc = "idle"
    /\ file = << >>
    /\ fileExists = FALSE
    /\ db_status = "none"
    /\ db_total_pages = -1
    /\ l_total_pages = 0
    /\ l_start_page = 0
    /\ db_chapters = << >>
    /\ db_questions = << >>
    /\ result = "none"
    /\ fault = "none"
    /\ trace = << >>
    /\ extracted = << >>
    /\ rolled_back = {}

Init ==
    /\ InitPipe
    /\ page_text = << >>
    /\ candidates = << >>
    /\ extract_done = TRUE
    /\ InitResolveIdle
    /\ InitRecoverIdle
    /\ InitClassifyIdle
    /\ InitServerIdle

(***************************************************************************)
(* upload_pdf (api/upload.py)                                              *)
(***************************************************************************)
\* a request whose filename does not end in .pdf is refused (lines 28-29);
\* otherwise the file is saved and the record committed with status pending
\* (lines 36-58), and any exception on the way removes the file (lines 67-71)
upload_pdf ==
    /\ pc = "idle"
    /\ \E doc \in Docs, is_pdf, saved, commit_ok \in BOOLEAN :
          IF is_pdf /\ saved /\ commit_ok
          THEN /\ file' = doc
               /\ fileExists' = TRUE
               /\ db_status' = "pending"
               /\ pc' = "queued"
          ELSE /\ doc = << >>
               /\ file' = file
               /\ fileExists' = FALSE
               /\ db_status' = db_status
               /\ pc' = "refused"
    /\ UNCHANGED <<db_total_pages, l_total_pages, l_start_page, db_chapters, db_questions,
                   result, fault, trace, extracted, rolled_back>>
    /\ UNCHANGED callVars
    /\ UNCHANGED serverVars

(***************************************************************************)
(* PDFProcessor.process_pdf (pdf_processor.py), one action per step that   *)
(* ends in a commit                                                        *)
(***************************************************************************)
\* lines 24-26: the record is read, set to processing and committed
SetProcessing ==
    /\ pc = "queued"
    /\ \E query_ok, commit_ok \in BOOLEAN :
          IF query_ok /\ commit_ok
          THEN db_status' = "processing" /\ pc' = "meta" /\ fault' = fault
          ELSE db_status' = db_status /\ pc' = "handler" /\ fault' = "store"
    /\ trace' = Append(trace, "status")
    /\ UNCHANGED <<file, fileExists, db_total_pages, l_total_pages, l_start_page,
                   db_chapters, db_questions, result, extracted, rolled_back>>
    /\ UNCHANGED callVars
    /\ UNCHANGED serverVars

\* lines 29-34: the page count is read from the file and committed
ReadMetadata ==
    /\ pc = "meta"
    /\ \E opens, commit_ok \in BOOLEAN :
          IF ~(fileExists /\ opens)
          THEN /\ pc' = "handler" /\ fault' = "open"
               /\ UNCHANGED <<l_total_pages, db_total_pages>>
          ELSE /\ l_total_pages' = Len(file)
               /\ pc' = AfterMetadata(commit_ok)
               /\ IF commit_ok
                  THEN db_total_pages' = Len(file) /\ fault' = fault
                  ELSE db_total_pages' = db_total_pages /\ fault' = "store"
    /\ trace' = Append(trace, "page_count")
    /\ UNCHANGED <<file, fileExists, db_status, l_start_page, db_chapters, db_questions,
                   result, extracted, rolled_back>>
    /\ UNCHANGED callVars
    /\ UNCHANGED serverVars

\* lines 37-39: Structure Recovery, then the outline is stored when it is
\* not empty; neither step raises out of its own try block
RecoverStructure ==
    /\ pc = "toc"
    /\ \E opens, opens2 \in BOOLEAN :
          LET Store(toc) ==
                  \E commit_ok \in BOOLEAN :
                     /\ db_chapters' = IF toc # << >>
                                       THEN _store_chapters(db_chapters, toc, commit_ok)
                                       ELSE db_chapters
                     /\ rolled_back' = IF toc # << >> /\ ~commit_ok
                                       THEN rolled_back \cup {0} ELSE rolled_back
          IN  Store(_extract_table_of_contents(Pdf(file), fileExists /\ opens,
                                               fileExists /\ opens2))
    /\ pc' = "loop"
    /\ l_start_page' = 0
    /\ trace' = Append(trace, "outline")
    /\ UNCHANGED <<file, fileExists, db_status, db_total_pages, l_total_pages, db_questions,
                   result, fault, extracted>>
    /\ UNCHANGED callVars
    /\ UNCHANGED serverVars

\* lines 44-53: one iteration of the chunk loop
ProcessChunk ==
    /\ pc = "loop"
    /\ ~LoopDone(l_start_page, l_total_pages)
    /\ \E opens, commit_ok \in BOOLEAN :
          LET Stored(batch) ==
                  /\ db_questions' = batch.stored
                  /\ rolled_back' = IF batch.rolled_back
                                    THEN rolled_back \cup {l_start_page + 1}
                                    ELSE rolled_back
              Extract(pages_text) ==
                  \E res \in [{pages_text[i].page_number : i \in 1..Len(pages_text)}
                                 -> 0..Len(db_chapters)] :
                     /\ \A p \in DOMAIN res : res[p] \in _find_chapter_for_page(db_chapters, p)
                     /\ Stored(extract_questions_from_text(db_questions, pages_text,
                                                           res, commit_ok))
              Chunk(pdf, end_page) ==
                  IF ~(fileExists /\ opens) \/ ChunkRaises(pdf, l_start_page, end_page)
                  THEN /\ pc' = "handler"
                       /\ fault' = IF ~(fileExists /\ opens) THEN "open" ELSE "page"
                       /\ UNCHANGED <<l_start_page, db_questions, extracted, rolled_back>>
                  ELSE /\ Extract(_extract_text_chunk(pdf, l_start_page, end_page))
                       /\ extracted' = Append(extracted, l_start_page + 1)
                       /\ l_start_page' = l_start_page + chunk_size
                       /\ pc' = "loop"
                       /\ fault' = fault
          IN  Chunk(Pdf(file), Min(l_start_page + chunk_size, l_total_pages))
    /\ trace' = Append(trace, "chunk")
    /\ UNCHANGED <<file, fileExists, db_status, db_total_pages, l_total_pages, db_chapters, result>>
    /\ UNCHANGED callVars
    /\ UNCHANGED serverVars

\* lines 56-59: after the loop the status completed is committed
Complete ==
    /\ pc = "loop"
    /\ LoopDone(l_start_page, l_total_pages)
    /\ \E commit_ok \in BOOLEAN :
          /\ pc' = AfterComplete(commit_ok)
          /\ IF commit_ok
             THEN db_status' = "completed" /\ result' = "true" /\ fault' = fault
             ELSE db_status' = db_status /\ result' = result /\ fault' = "store"
    /\ trace' = Append(trace, "completed")
    /\ UNCHANGED <<file, fileExists, db_total_pages, l_total_pages, l_start_page,
                   db_chapters, db_questions, extracted, rolled_back>>
    /\ UNCHANGED callVars
    /\ UNCHANGED serverVars

\* lines 61-67: the except clause reads the record again and commits failed;
\* an exception of the store here leaves process_pdf
HandleError ==
    /\ pc = "handler"
    /\ \E query_ok, commit_ok \in BOOLEAN :
          IF query_ok /\ commit_ok
          THEN db_status' = "failed" /\ result' = "false" /\ pc' = "returned"
          ELSE db_status' = db_status /\ result' = result /\ pc' = "escaped"
    /\ trace' = Append(trace, "failed")
    /\ UNCHANGED <<file, fileExists, db_total_pages, l_total_pages, l_start_page,
                   db_chapters, db_questions, fault, extracted, rolled_back>>
    /\ UNCHANGED callVars
    /\ UNCHANGED serverVars

\* process_pdf_background (api/upload.py, lines 113-118): the file of a
\* failed run is removed
process_pdf_background ==
    /\ pc = "returned"
    /\ pc' = "done"
    /\ fileExists' = IF result = "false" THEN FALSE ELSE fileExists
    /\ UNCHANGED <<file, db_status, db_total_pages, l_total_pages, l_start_page, db_chapters,
                   db_questions, result, fault, trace, extracted, rolled_back>>
    /\ UNCHANGED callVars
    /\ UNCHANGED serverVars

Next ==
    \/ upload_pdf
    \/ SetProcessing
    \/ ReadMetadata
    \/ RecoverStructure
    \/ ProcessChunk
    \/ Complete
    \/ HandleError
    \/ process_pdf_background

Spec == Init /\ [][Next]_vars

(***************************************************************************)
(* One page handed to _extract_questions_from_page                         *)
(*                                                                         *)
(* The page texts are made of 1..MaxLines lines of QLines, joined by       *)
(* newlines.                                                               *)
(***************************************************************************)
QLines ==
    << <<"E","x","e","r","c","i","s","e","s">>,
       <<"1","."," ","W","h","a","t"," ","i","s"," ","g","r","a","v","i","t","y","?">>,
       <<"2","."," ","E","x","p","l","a","i","n"," ","i","n","e","r","t","i","a"," ","i","n"," ","d","e","t","a","i","l",".">>,
       <<"3","."," ","W","h","y","?">>,
       <<"W","h","a","t"," ","i","s"," ","h","e","a","t","?">>,
       <<"I","s"," ","i","t","?">>,
       <<"T","h","e"," ","c","a","t"," ","s","a","t","."," ","R","a","n","d","o","m"," ","s","e","n","t","e","n","c","e",".">> >>

\* bound of the page texts: the lines of a page
MaxLines == 3

RECURSIVE JoinLines(_)
JoinLines(ls) ==
    IF Len(ls) = 0 THEN << >>
    ELSE IF Len(ls) = 1 THEN ls[1]
    ELSE ls[1] \o <<NL>> \o JoinLines(Tail(ls))

PageTexts ==
    {JoinLines([i \in DOMAIN ix |-> QLines[ix[i]]]) :
        ix \in UNION {[1..n -> 1..Len(QLines)] : n \in 1..MaxLines}}

\* the page text of Scenario A
ScenarioA ==
    <<"E","x","e","r","c","i","s","e","s",NL,"1","."," ","W","h","a","t"," ","i","s"," ","g","r","a","v","i","t","y","?",NL,"2","."," ","E","x","p","l","a","i","n"," ","i","n","e","r","t","i","a"," ","i","n"," ","d","e","t","a","i","l",".">>

InitExtract ==
    /\ InitPipe
    /\ page_text \in PageTexts
    /\ candidates = << >>
    /\ extract_done = FALSE
    /\ InitResolveIdle
    /\ InitRecoverIdle
    /\ InitClassifyIdle
    /\ InitServerIdle

\* _extract_questions_from_page(page_text, 1)
ExtractPage ==
    /\ ~extract_done
    /\ candidates' = _extract_questions_from_page(page_text, 1)
    /\ extract_done' = TRUE
    /\ UNCHANGED page_text
    /\ UNCHANGED <<pipeVars, resolveVars, recoverVars, classifyVars, serverVars>>

NextExtract == ExtractPage

SpecExtract == InitExtract /\ [][NextExtract]_vars

(***************************************************************************)
(* Pages resolved in a stored outline                                      *)
(*                                                                         *)
(* The outline is what _store_chapters committed: up to MaxEntries rows,   *)
(* ids in recovery order, start pages as the table of contents gave them   *)
(* (in any order, repeated or not).  Structure Recovery only ever emits    *)
(* level 1.                                                                *)
(***************************************************************************)
\* bound of the outlines: the rows of an outline
MaxEntries == 3

\* bound of the calls of the resolver on one outline
MaxQueries == 2

StartPages == {1, 50, 120}

QueryPages == {1, 49, 50, 75, 120}

Outlines ==
    UNION {{_store_chapters(<< >>,
                            [i \in 1..n |-> [chapter_number |-> Str(i),
                                             title |-> <<"T">>,
                                             page_start |-> f[i],
                                             level |-> 1]],
                            TRUE) : f \in [1..n -> StartPages]} : n \in 0..MaxEntries}

InitResolve ==
    /\ InitPipe
    /\ page_text = << >>
    /\ candidates = << >>
    /\ extract_done = TRUE
    /\ res_outline \in Outlines
    /\ res_pages = << >>
    /\ res_chapters = << >>
    /\ res_raised = << >>
    /\ InitRecoverIdle
    /\ InitClassifyIdle
    /\ InitServerIdle

\* _find_chapter_for_page(textbook_id, page_num) on the stored outline: the
\* first row of the query, or None when the query raises (lines 269-278)
ResolvePage ==
    /\ Len(res_pages) < MaxQueries
    /\ \E page_num \in QueryPages, query_ok \in BOOLEAN :
          \E chapter \in _find_chapter_for_page(res_outline, page_num) :
             /\ chapter \in (IF query_ok THEN ResolveSet(res_outline, page_num) ELSE {0})
             /\ res_pages' = Append(res_pages, page_num)
             /\ res_chapters' = Append(res_chapters, chapter)
             /\ res_raised' = Append(res_raised, ~query_ok)
    /\ UNCHANGED res_outline
    /\ UNCHANGED <<pipeVars, pageVars, recoverVars, classifyVars, serverVars>>

NextResolve == ResolvePage

SpecResolve == InitResolve /\ [][NextResolve]_vars

(***************************************************************************)
(* One file handed to _extract_table_of_contents                           *)
(*                                                                         *)
(* The file has one page of 1..MaxTocLines lines of TocLib, or such a page *)
(* followed by a page of one line.                                         *)
(***************************************************************************)
TocLib ==
    << <<"C","o","n","t","e","n","t","s">>,
       <<"C","h","a","p","t","e","r"," ","2",":"," ","T","h","e","r","m","o","d","y","n","a","m","i","c","s",".",".",".",".","4","5">>,
       <<" "," ","1",".","1"," ","H","e","a","t"," ","F","l","o","w",".",".",".",".","1","2">>,
       <<"1"," ","H","e","a","t",".",".","1","1">>,
       <<"2"," ","L","i","g","h","t",".",".","2">>,
       <<"3"," ","S","o","u","n","d",".",".","0">>,
       <<"C","h","a","p","t","e","r"," ","1"," ","H","e","a","t">> >>

\* bound of the pages: the lines of the first page
MaxTocLines == 2

\* the pages of 1..n lines
TocPages(n) ==
    {JoinLines([i \in DOMAIN ix |-> TocLib[ix[i]]]) :
        ix \in UNION {[1..k -> 1..Len(TocLib)] : k \in 1..n}}

\* a file that starts with k pages without text
Padded(k, pdf) == [i \in 1..k |-> << >>] \o pdf

\* the page follows 19 or 20 pages without text, which puts it on the last
\* page the scan of line 99 reads or on the first one it does not read
TocPdfs ==
    {<<first>> : first \in TocPages(MaxTocLines)}
    \cup {<<first, second>> : first \in TocPages(MaxTocLines), second \in TocPages(1)}
    \cup {Padded(k, <<first>>) : k \in {TocScanPages - 1, TocScanPages},
                                first \in TocPages(MaxTocLines)}

InitRecover ==
    /\ InitPipe
    /\ page_text = << >>
    /\ candidates = << >>
    /\ extract_done = TRUE
    /\ InitResolveIdle
    /\ sr_pdf \in TocPdfs
    /\ sr_outline = << >>
    /\ sr_source = ""
    /\ sr_opened = FALSE
    /\ InitClassifyIdle
    /\ InitServerIdle

\* where the entries of _extract_table_of_contents come from: the scan of
\* lines 99-161 or the fallback of line 164
OutlineSource(pdf, opens, opens2) ==
    IF opens /\ TocLoop(pdf, 1).toc_entries # << >> THEN "toc"
    ELSE IF opens /\ opens2 /\ ~TocLoop(pdf, 1).raised THEN "headings"
    ELSE "none"

\* _extract_table_of_contents(file_path)
RecoverOutline ==
    /\ sr_source = ""
    /\ \E opens, opens2 \in BOOLEAN :
          /\ sr_outline' = _extract_table_of_contents(sr_pdf, opens, opens2)
          /\ sr_source' = OutlineSource(sr_pdf, opens, opens2)
          /\ sr_opened' = opens
    /\ UNCHANGED sr_pdf
    /\ UNCHANGED <<pipeVars, pageVars, resolveVars, classifyVars, serverVars>>

NextRecover == RecoverOutline

SpecRecover == InitRecover /\ [][NextRecover]_vars

(***************************************************************************)
(* One text handed to _classify_question_type                              *)
(*                                                                         *)
(* The texts are made of 1..MaxFragments fragments of Fragments, joined by *)
(* blanks.                                                                 *)
(***************************************************************************)
Fragments ==
    << <<"a",")"," ","y","e","s"," ","b",")"," ","n","o"," ","c",")"," ","m","a","y","b","e">>,
       <<"C","h","o","o","s","e">>,
       <<"S","e","l","e","c","t"," ","o","n","e">>,
       <<"d",")"," ","n","o","n","e">>,
       <<"T","r","u","e"," ","o","r"," ","f","a","l","s","e">>,
       <<"T","/","F">>,
       <<"t","r","u","e","/","f","a","l","s","e">>,
       <<"E","x","p","l","a","i","n">>,
       <<"C","o","m","p","a","r","e"," ","a","n","d"," ","c","o","n","t","r","a","s","t">>,
       <<"W","h","a","t"," ","i","s"," ","i","t","?">> >>

\* bound of the question texts: the fragments of a text
MaxFragments == 2

RECURSIVE JoinWords(_)
JoinWords(ws) ==
    IF Len(ws) = 0 THEN << >>
    ELSE IF Len(ws) = 1 THEN ws[1]
    ELSE ws[1] \o <<" ">> \o JoinWords(Tail(ws))

QuestionTexts ==
    {JoinWords([i \in DOMAIN ix |-> Fragments[ix[i]]]) :
        ix \in UNION {[1..n -> 1..Len(Fragments)] : n \in 1..MaxFragments}}

InitClassify ==
    /\ InitPipe
    /\ page_text = << >>
    /\ candidates = << >>
    /\ extract_done = TRUE
    /\ InitResolveIdle
    /\ InitRecoverIdle
    /\ cls_text \in QuestionTexts
    /\ cls_type = ""
    /\ InitServerIdle

\* _classify_question_type(question_text)
Classify ==
    /\ cls_type = ""
    /\ cls_type' = _classify_question_type(cls_text)
    /\ UNCHANGED cls_text
    /\ UNCHANGED <<pipeVars, pageVars, resolveVars, recoverVars, serverVars>>

NextClassify == Classify

SpecClassify == InitClassify /\ [][NextClassify]_vars

(***************************************************************************)
(* The server: the pipeline of one upload, a second upload request that    *)
(* gets the same file_path, and the status endpoint                        *)
(*                                                                         *)
(* file_path is uploads/<timestamp to the second>_<filename> (upload.py    *)
(* lines 32-34): a request with the same filename in the same second       *)
(* writes to the same path, and its record breaks the unique constraint on *)
(* Textbook.filename (models.py line 10).  The background task runs in a   *)
(* worker thread, so its steps interleave with the request handlers.       *)
(***************************************************************************)
\* bound of the documents of the server: the pages of a file
MaxServerPages == 2

ServerDocs == UNION {DocsOfLen(n) : n \in 0..MaxServerPages}

\* upload_pdf of a document of at most MaxServerPages pages
upload_short ==
    /\ upload_pdf
    /\ file' \in ServerDocs

\* a get_processing_status that also resets the status it reads
PollResettingStatus ==
    /\ db_status # "none"
    /\ polled' = db_status
    /\ db_status' = "pending"
    /\ UNCHANGED pc2
    /\ UNCHANGED <<pc, file, fileExists, db_total_pages, l_total_pages, l_start_page,
                   db_chapters, db_questions, result, fault, trace, extracted, rolled_back>>
    /\ UNCHANGED callVars

\* get_processing_status (upload.py lines 73-89): the record is read and its
\* status returned, 404 when there is none
get_processing_status ==
    /\ polled' = IF db_status = "none" THEN "not_found" ELSE db_status
    /\ UNCHANGED pc2
    /\ UNCHANGED pipeVars
    /\ UNCHANGED callVars

\* the second upload_pdf, lines 32-39: after the first record was committed,
\* the upload is written to the same file_path, over the file that is there
save_again ==
    /\ pc2 = "idle"
    /\ pc \notin {"idle", "refused"}
    /\ \E doc \in ServerDocs :
          /\ file' = doc
          /\ fileExists' = TRUE
    /\ pc2' = "saved"
    /\ UNCHANGED polled
    /\ UNCHANGED <<pc, db_status, db_total_pages, l_total_pages, l_start_page,
                   db_chapters, db_questions, result, fault, trace, extracted, rolled_back>>
    /\ UNCHANGED callVars

\* the second upload_pdf, lines 45-55 and 67-71: the commit of its record
\* raises on the unique filename, and the except clause removes the file at
\* file_path
fail_again ==
    /\ pc2 = "saved"
    /\ fileExists' = FALSE
    /\ pc2' = "refused"
    /\ UNCHANGED polled
    /\ UNCHANGED <<pc, file, db_status, db_total_pages, l_total_pages, l_start_page,
                   db_chapters, db_questions, result, fault, trace, extracted, rolled_back>>
    /\ UNCHANGED callVars

NextServer ==
    \/ upload_short
    \/ SetProcessing
    \/ ReadMetadata
    \/ RecoverStructure
    \/ ProcessChunk
    \/ Complete
    \/ HandleError
    \/ process_pdf_background
    \/ get_processing_status
    \/ save_again
    \/ fail_again

SpecServer == Init /\ [][NextServer]_vars

(***************************************************************************)
(* Properties of the processing status                                     *)
(***************************************************************************)
\* C1, as stated: the stored status only moves pending -> processing ->
\* completed or pending -> processing -> failed (after the record is
\* created as pending)
C1_OnlyThroughProcessing ==
    [][db_status' # db_status =>
          <<db_status, db_status'>> \in {<<"none", "pending">>,
                                         <<"pending", "processing">>,
                                         <<"processing", "completed">>,
                                         <<"processing", "failed">>}]_vars

\* C1, amended: the stored status only moves pending -> processing ->
\* completed, pending -> processing -> failed, or pending -> failed when the
\* read or the commit of lines 24-26 raises; completed and failed are never
\* left, and processing never goes back to pending
C1_StatusMoves ==
    [][db_status' # db_status =>
          <<db_status, db_status'>> \in {<<"none", "pending">>,
                                         <<"pending", "processing">>,
                                         <<"pending", "failed">>,
                                         <<"processing", "completed">>,
                                         <<"processing", "failed">>}]_vars

\* a run that failed before processing was committed, and whose cleanup ran
C1_Witness == pc = "done" /\ db_status = "failed" /\ trace = <<"status", "failed">>

\* C2, as stated: a page whose text extraction raises does not make the
\* document failed
C2_PageErrorSwallowed == ~(fault = "page" /\ db_status = "failed")

\* C3: completed is committed only after every chunk of pages
\* 1..total_pages, chunk_size pages each, was handed to question extraction,
\* and only in a run in which no exception reached the except clause
C3_CompletedAfterAllChunks ==
    db_status = "completed" =>
        /\ fault = "none"
        /\ l_total_pages = Len(file)
        /\ extracted = [i \in 1..((l_total_pages + chunk_size - 1) \div chunk_size)
                           |-> 1 + (i - 1) * chunk_size]

\* a completed document of two chunks
C3_Witness == db_status = "completed" /\ Len(extracted) = 2 /\ pc = "done"

\* C4, as stated: a run ended by an error has the status failed
C4_ErrorEndsFailed ==
    (pc \in {"returned", "done", "escaped"} /\ fault # "none") => db_status = "failed"

\* C5, as stated: once process_pdf has ended the status is completed or
\* failed, never processing or pending
C5_EndsTerminal ==
    pc \in {"returned", "done", "escaped"} => db_status \in {"completed", "failed"}

(***************************************************************************)
(* Properties of the order of the steps and of the batches                 *)
(***************************************************************************)
\* C6: the steps of a run are ordered: status, page count, outline, then the
\* chunks in ascending page order; the outline is stored only before any
\* extraction, and nothing is extracted or stored as a question before the
\* page count is committed and the outline step is over
C6_StepsOrdered ==
    /\ [](/\ \A i \in 1..Len(trace) :
                /\ trace[i] = "status" => i = 1
                /\ trace[i] = "page_count" => i = 2 /\ trace[1] = "status"
                /\ trace[i] = "outline" => i = 3 /\ trace[2] = "page_count"
                /\ trace[i] = "chunk" => i > 3 /\ trace[3] = "outline"
          /\ \A i \in 1..Len(extracted) : extracted[i] = 1 + (i - 1) * chunk_size
          /\ (extracted # << >> \/ db_questions # << >>) =>
                db_total_pages = Len(file) /\ Len(trace) > 3)
    /\ [][db_chapters' # db_chapters => extracted = << >> /\ db_questions = << >>]_vars
    /\ [][extracted' # extracted =>
             /\ Len(trace) >= 3 /\ trace[3] = "outline"
             /\ Len(extracted') = Len(extracted) + 1]_vars

\* an outline was stored, then two chunks were extracted and questions stored
C6_Witness == db_chapters # << >> /\ Len(extracted) = 2 /\ db_questions # << >>

\* C7: a failed commit of the outline or of a chunk's questions loses that
\* batch only: the stored questions, chapters and status stay as they were,
\* no exception reaches the except clause, and the loop goes on with the
\* next chunk
C7_OnlyThatBatch ==
    [][rolled_back' # rolled_back =>
          /\ db_questions' = db_questions
          /\ db_chapters' = db_chapters
          /\ db_status' = db_status
          /\ fault' = fault
          /\ pc' = "loop"
          /\ l_start_page' = IF 0 \in rolled_back' \ rolled_back
                             THEN 0 ELSE l_start_page + chunk_size]_vars

\* the second chunk's commit failed, the first chunk's questions are stored
\* and the run completed
C7_Witness ==
    /\ rolled_back = {chunk_size + 1}
    /\ db_questions # << >>
    /\ db_status = "completed"

\* C8: a document whose pages all yield empty text, in a run where the file
\* opens and the store takes the commits, ends completed with no chapter
\* and no question stored
C8_EmptyDocumentCompletes ==
    (/\ pc \in {"returned", "done", "escaped"}
     /\ \A p \in 1..Len(file) : file[p] = EmptyKind
     /\ fault \notin {"store", "open"})
    => db_status = "completed" /\ db_chapters = << >> /\ db_questions = << >>

\* an empty document of more than one chunk has completed
C8_Witness ==
    /\ Len(file) > chunk_size
    /\ \A p \in 1..Len(file) : file[p] = EmptyKind
    /\ pc = "done"
    /\ db_status = "completed"
    /\ Len(extracted) = 2

(***************************************************************************)
(* Properties of the candidates of one page                                *)
(***************************************************************************)
\* C9, as stated: every candidate of a page ends with '?' and has at least
\* MinQuestionLen characters
C9_CandidatesValidated ==
    \A i \in 1..Len(candidates) :
        /\ EndsWith(candidates[i].text, <<"?">>)
        /\ Len(candidates[i].text) >= MinQuestionLen

\* C10, as stated: Scenario A yields "What is gravity?" (short_answer) and
\* "Explain inertia in detail." (essay), in this order
C10_ScenarioATwoCandidates ==
    (extract_done /\ page_text = ScenarioA) =>
        /\ Len(candidates) = 2
        /\ candidates[1].text = <<"W","h","a","t"," ","i","s"," ","g","r","a","v","i","t","y","?">>
        /\ candidates[1].type = "short_answer"
        /\ candidates[2].text = <<"E","x","p","l","a","i","n"," ","i","n","e","r","t","i","a"," ","i","n"," ","d","e","t","a","i","l",".">>
        /\ candidates[2].type = "essay"

\* C10, amended: Scenario A is handled in exercise-section mode and yields
\* exactly one candidate, "What is gravity?" of type short_answer; the
\* buffer "Explain inertia in detail." holds no '?' and is dropped
C10_ScenarioAOneCandidate ==
    (extract_done /\ page_text = ScenarioA) =>
        /\ _is_exercise_section(page_text)
        /\ Len(candidates) = 1
        /\ candidates[1].text = <<"W","h","a","t"," ","i","s"," ","g","r","a","v","i","t","y","?">>
        /\ candidates[1].number = <<"1">>
        /\ candidates[1].type = "short_answer"

\* Scenario A has been extracted
C10_Witness == extract_done /\ page_text = ScenarioA /\ candidates # << >>

\* C11: a page text without '?' yields no candidate, in exercise-section
\* mode as well as in scattered mode
C11_NoQuestionMarkNoCandidates ==
    (extract_done /\ ~Contains(page_text, <<"?">>)) => candidates = << >>

\* the page text of Scenario B
ScenarioB == <<"T","h","e"," ","c","a","t"," ","s","a","t","."," ","R","a","n","d","o","m"," ","s","e","n","t","e","n","c","e",".">>

\* an exercise page whose numbered item holds no '?' has been extracted
C11_Witness ==
    /\ extract_done
    /\ page_text = JoinLines(<<QLines[1], QLines[3]>>)
    /\ _is_exercise_section(page_text)
    /\ QuestionStart(QLines[3]).ok
    /\ ~Contains(page_text, <<"?">>)

\* Scenario B has been extracted, in scattered mode
C11_ScenarioBWitness ==
    extract_done /\ page_text = ScenarioB /\ ~_is_exercise_section(page_text)

\* C12, as stated: no two candidates of a page have the same lower-cased
\* first 50 characters
C12_NoDuplicateKeys ==
    \A i, j \in 1..Len(candidates) :
        i < j => DedupKey(candidates[i].text) # DedupKey(candidates[j].text)

\* C12 for scattered mode only: the keys of the candidates differ, and the
\* candidates are the valid matches in pattern order then match order, each
\* key's first one kept
C12_ScatteredNoDuplicateKeys ==
    (extract_done /\ ~_is_exercise_section(page_text)) =>
        /\ C12_NoDuplicateKeys
        /\ \A i \in 1..Len(candidates) :
              \E r \in 1..Len(ScatteredRaw(1, page_text)) :
                 /\ ScatteredRaw(1, page_text)[r] = candidates[i].text
                 /\ \A q \in 1..(r - 1) :
                       DedupKey(ScatteredRaw(1, page_text)[q]) # DedupKey(candidates[i].text)
        /\ \A r \in 1..Len(ScatteredRaw(1, page_text)) :
              \E i \in 1..Len(candidates) :
                 DedupKey(candidates[i].text) = DedupKey(ScatteredRaw(1, page_text)[r])

(***************************************************************************)
(* Properties of the resolver                                              *)
(***************************************************************************)
\* C13: when the query does not raise, the resolver returns an entry of the
\* outline whose start page is the greatest among those <= the page, and
\* None (chapter_id null, no error) when there is no entry with start page
\* <= the page; in the outline with start pages 1, 50, 120 page 75 resolves
\* to the entry that starts at 50
C13_GreatestStartAtMost ==
    \A k \in 1..Len(res_pages) :
        ~res_raised[k] =>
            /\ (\A i \in 1..Len(res_outline) : res_outline[i].page_start > res_pages[k])
                  => res_chapters[k] = 0
            /\ (\E i \in 1..Len(res_outline) : res_outline[i].page_start <= res_pages[k])
                  => \E i \in 1..Len(res_outline) :
                        /\ res_outline[i].id = res_chapters[k]
                        /\ res_outline[i].page_start <= res_pages[k]
                        /\ \A j \in 1..Len(res_outline) :
                              res_outline[j].page_start <= res_pages[k]
                                 => res_outline[j].page_start <= res_outline[i].page_start
            /\ ([i \in 1..Len(res_outline) |-> res_outline[i].page_start] = <<1, 50, 120>>
                 /\ res_pages[k] = 75)
                  => res_chapters[k] = 2 /\ res_outline[2].page_start = 50

\* Scenario D has been resolved, and so has a page before the first chapter
C13_Witness ==
    /\ [i \in 1..Len(res_outline) |-> res_outline[i].page_start] = <<50, 120>>
    /\ res_pages = <<75, 49>>
    /\ res_chapters = <<1, 0>>
    /\ res_raised = <<FALSE, FALSE>>

\* Scenario D itself
C13_ScenarioDWitness ==
    /\ [i \in 1..Len(res_outline) |-> res_outline[i].page_start] = <<1, 50, 120>>
    /\ res_pages = <<75>>
    /\ res_chapters = <<2>>
    /\ res_raised = <<FALSE>>

\* C14, as stated: of the entries that share the greatest start page <= the
\* page, the resolver returns the one recovered last (the greatest id)
C14_TieGoesToLast ==
    \A k \in 1..Len(res_pages) :
        (~res_raised[k] /\ res_chapters[k] # 0) =>
            \A i \in 1..Len(res_outline) :
                res_outline[i].page_start = res_outline[res_chapters[k]].page_start
                   => res_outline[i].id <= res_chapters[k]

\* C15: for one outline and pages p <= q whose queries do not raise, when
\* the resolver returns an entry for p it returns one for q, and that one
\* does not start before the entry returned for p
C15_Monotone ==
    \A k1, k2 \in 1..Len(res_pages) :
        (/\ ~res_raised[k1]
         /\ ~res_raised[k2]
         /\ res_pages[k1] <= res_pages[k2]
         /\ res_chapters[k1] # 0)
        => /\ res_chapters[k2] # 0
           /\ res_outline[res_chapters[k2]].page_start
                 >= res_outline[res_chapters[k1]].page_start

\* two pages in different chapters have been resolved, the later page first
C15_Witness ==
    /\ [i \in 1..Len(res_outline) |-> res_outline[i].page_start] = <<120, 1, 50>>
    /\ res_pages = <<75, 49>>
    /\ res_chapters = <<3, 2>>
    /\ res_raised = <<FALSE, FALSE>>

(***************************************************************************)
(* Properties of Structure Recovery                                        *)
(***************************************************************************)
\* the page text of Scenario C
ScenarioC == <<"C","h","a","p","t","e","r"," ","2",":"," ","T","h","e","r","m","o","d","y","n","a","m","i","c","s",".",".",".",".","4","5">>

\* C16, as stated: the TOC line "Chapter 2: Thermodynamics....45" yields one
\* level-1 entry with label 2, title "Thermodynamics" and start page 45
C16_ScenarioCEntry ==
    (sr_source # "" /\ sr_opened /\ sr_pdf = <<ScenarioC>>) =>
        sr_outline = << [chapter_number |-> <<"2">>,
                         title |-> <<"T","h","e","r","m","o","d","y","n","a","m","i","c","s">>,
                         page_start |-> 45,
                         level |-> 1] >>

\* what the code returns for Scenario C: the title keeps the ": "
C16_ScenarioCColonTitle ==
    (sr_source # "" /\ sr_opened /\ sr_pdf = <<ScenarioC>>) =>
        sr_outline = << [chapter_number |-> <<"2">>,
                         title |-> <<":"," ","T","h","e","r","m","o","d","y","n","a","m","i","c","s">>,
                         page_start |-> 45,
                         level |-> 1] >>

\* C17, as stated: every entry of a returned outline has start_page >= 1 and
\* the entries are in non-decreasing start_page order
C17_OutlineOrdered ==
    /\ \A i \in 1..Len(sr_outline) : sr_outline[i].page_start >= 1
    /\ \A i \in 1..(Len(sr_outline) - 1) :
          sr_outline[i].page_start <= sr_outline[i + 1].page_start

\* C17, amended: an outline that came from heading inference has
\* start_page >= 1 in every entry, each entry starting on the page its
\* heading is on, and lists its entries in non-decreasing start_page order
C17_InferredOutlineOrdered ==
    sr_source = "headings" =>
        /\ \A i \in 1..Len(sr_outline) :
              /\ sr_outline[i].page_start \in 1..Len(sr_pdf)
              /\ sr_outline[i].level = 1
        /\ \A i \in 1..(Len(sr_outline) - 1) :
              sr_outline[i].page_start <= sr_outline[i + 1].page_start

\* headings on two pages have been turned into an outline
C17_Witness ==
    /\ sr_source = "headings"
    /\ Len(sr_outline) = 2
    /\ sr_outline[1].page_start = 1
    /\ sr_outline[2].page_start = 2

\* C19, as stated: on a TOC page the line "  1.1 Heat Flow....12" yields an
\* entry of level 2 with label 1.1 and start page 12
C19_SubLevelEntry ==
    (/\ sr_source # ""
     /\ sr_opened
     /\ sr_pdf = <<JoinLines(<<TocLib[1], TocLib[3]>>)>>)
    => \E i \in 1..Len(sr_outline) :
          /\ sr_outline[i].level = 2
          /\ sr_outline[i].chapter_number = <<"1", ".", "1">>
          /\ sr_outline[i].page_start = 12

\* no entry of level 2 is ever returned
C19_NeverLevelTwo == \A i \in 1..Len(sr_outline) : sr_outline[i].level = 1

(***************************************************************************)
(* Properties of the classifier                                            *)
(***************************************************************************)
\* whether the lower-cased classified text contains one of the words
ClassifiedHas(words) == \E w \in words : Contains(Lower(cls_text), w)

\* C18: the type follows a fixed priority on the lower-cased text:
\* multiple_choice for a), b), c), d), choose, select; else true_false for
\* true or false, t/f, true/false; else essay for explain, describe,
\* discuss, analyze, compare, contrast; else short_answer; a text with
\* "a) yes b) no c) maybe" is multiple_choice
C18_TypeByPriority ==
    cls_type # "" =>
        /\ cls_type = "multiple_choice" <=>
              ClassifiedHas({<<"a",")">>, <<"b",")">>, <<"c",")">>, <<"d",")">>, <<"c","h","o","o","s","e">>, <<"s","e","l","e","c","t">>})
        /\ cls_type = "true_false" <=>
              /\ ~ClassifiedHas({<<"a",")">>, <<"b",")">>, <<"c",")">>, <<"d",")">>, <<"c","h","o","o","s","e">>, <<"s","e","l","e","c","t">>})
              /\ ClassifiedHas({<<"t","r","u","e"," ","o","r"," ","f","a","l","s","e">>, <<"t","/","f">>, <<"t","r","u","e","/","f","a","l","s","e">>})
        /\ cls_type = "essay" <=>
              /\ ~ClassifiedHas({<<"a",")">>, <<"b",")">>, <<"c",")">>, <<"d",")">>, <<"c","h","o","o","s","e">>, <<"s","e","l","e","c","t">>})
              /\ ~ClassifiedHas({<<"t","r","u","e"," ","o","r"," ","f","a","l","s","e">>, <<"t","/","f">>, <<"t","r","u","e","/","f","a","l","s","e">>})
              /\ ClassifiedHas({<<"e","x","p","l","a","i","n">>, <<"d","e","s","c","r","i","b","e">>, <<"d","i","s","c","u","s","s">>, <<"a","n","a","l","y","z","e">>, <<"c","o","m","p","a","r","e">>, <<"c","o","n","t","r","a","s","t">>})
        /\ cls_type \in {"multiple_choice", "true_false", "essay", "short_answer"}
        /\ Contains(cls_text, <<"a",")"," ","y","e","s"," ","b",")"," ","n","o"," ","c",")"," ","m","a","y","b","e">>) => cls_type = "multiple_choice"

\* a text with a true/false and an essay indicator has been classified
C18_Witness ==
    /\ cls_text = JoinWords(<<Fragments[8], Fragments[5]>>)
    /\ cls_type = "true_false"

\* Scenario E, followed by an essay indicator, has been classified
C18_ScenarioEWitness ==
    /\ cls_text = JoinWords(<<Fragments[1], Fragments[8]>>)
    /\ cls_type = "multiple_choice"

\* C21: the entries of a TOC scan are those of one page, the first of the
\* first min(20, page_count) pages that passes the TOC-indicator test and
\* yields an entry; heading inference runs only when no such page exists,
\* and then the outline holds inferred headings only
C21_FirstTocPageOnly ==
    /\ sr_source = "toc" =>
          \E n \in 1..Min(TocScanPages, Len(sr_pdf)) :
             /\ HasTocIndicator(sr_pdf[n])
             /\ sr_outline # << >>
             /\ sr_outline = TocLines(SplitLines(sr_pdf[n]), 1)
             /\ \A m \in 1..(n - 1) :
                   \/ sr_pdf[m] = << >>
                   \/ ~HasTocIndicator(sr_pdf[m])
                   \/ TocLines(SplitLines(sr_pdf[m]), 1) = << >>
    /\ sr_source = "headings" =>
          /\ \A n \in 1..Min(TocScanPages, Len(sr_pdf)) :
                \/ sr_pdf[n] = << >>
                \/ ~HasTocIndicator(sr_pdf[n])
                \/ TocLines(SplitLines(sr_pdf[n]), 1) = << >>
          /\ \A i \in 1..Len(sr_outline) :
                /\ sr_outline[i].chapter_number = Str(i)
                /\ sr_outline[i].page_start \in 1..Len(sr_pdf)
                /\ \E k \in 1..Len(TocLib) :
                      sr_outline[i].title = Title(Strip(TocLib[k]))

\* a file with entries on both of its pages has been scanned: the outline
\* holds the entries of the first page only
C21_Witness ==
    /\ sr_source = "toc"
    /\ Len(sr_pdf) = 2
    /\ TocPageEntries(sr_pdf[1]) # << >>
    /\ TocPageEntries(sr_pdf[2]) # << >>
    /\ sr_outline = TocPageEntries(sr_pdf[1])

\* a contents page on page 21 is not scanned, and its heading is inferred
C21_BeyondScanWitness ==
    /\ sr_source = "headings"
    /\ Len(sr_pdf) = TocScanPages + 1
    /\ TocPageEntries(sr_pdf[TocScanPages + 1]) # << >>
    /\ Len(sr_outline) = 1
    /\ sr_outline[1].page_start = TocScanPages + 1

(***************************************************************************)
(* Properties of the stored questions                                      *)
(***************************************************************************)
\* the stored questions of the pages start_page+1..start_page+chunk_size,
\* without their chapter
StoredOfChunk(start_page) ==
    LET NoChapter(rows) == [i \in 1..Len(rows) |-> [rows[i] EXCEPT !.chapter_id = 0]]
    IN  NoChapter(SelectSeq(db_questions,
                            LAMBDA q : /\ q.page_number > start_page
                                       /\ q.page_number <= start_page + chunk_size))

\* the candidates of all the pages of that chunk, in page order then
\* candidate order, without their chapter
CandidatesOfChunk(start_page) ==
    ChunkRows(_extract_text_chunk(Pdf(file), start_page,
                                  Min(start_page + chunk_size, Len(file))),
              1, [p \in 1..Len(file) |-> 0])

\* C20: in every state, also after a run that failed inside a chunk, the
\* stored questions of each chunk are all the candidates of all its pages or
\* none at all, and the stored questions are in page order
C20_WholeChunksStored ==
    /\ \A c \in 0..(Len(file) \div chunk_size) :
          \/ StoredOfChunk(c * chunk_size) = << >>
          \/ StoredOfChunk(c * chunk_size) = CandidatesOfChunk(c * chunk_size)
    /\ \A i \in 1..(Len(db_questions) - 1) :
          db_questions[i].page_number <= db_questions[i + 1].page_number

\* a run failed on the second page of its first chunk, whose first page
\* holds a question: nothing of the chunk is stored
C20_Witness ==
    /\ pc = "done"
    /\ db_status = "failed"
    /\ fault = "page"
    /\ extracted = << >>
    /\ Len(file) >= 2
    /\ QuestionsOfPage(StrippedPage(PageOf(file[1])), 1) # << >>
    /\ file[2] = 0
    /\ db_questions = << >>

\* a run stored the two pages of its first chunk that hold questions, then
\* failed in the second chunk
C20_StoredThenFailedWitness ==
    /\ db_status = "failed"
    /\ fault = "page"
    /\ extracted = <<1>>
    /\ Len(db_questions) >= 2
    /\ db_questions[1].page_number = 1
    /\ db_questions[Len(db_questions)].page_number = 2

\* the number of stored questions of page p
StoredOfPage(p) == Len(SelectSeq(db_questions, LAMBDA q : q.page_number = p))

\* C22: the chunks handed to question extraction start at pages 1, 11, 21,
\* ... within 1..total_pages and cover all the pages once the run has
\* completed; no page is extracted twice (a page has none or exactly its
\* own candidates stored), and every stored question has a page_number in
\* 1..total_pages as persisted
C22_ChunksPartition ==
    /\ \A i \in 1..Len(extracted) :
          /\ extracted[i] = 1 + (i - 1) * chunk_size
          /\ extracted[i] <= l_total_pages
    /\ db_status = "completed" => Len(extracted) * chunk_size >= l_total_pages
    /\ \A i \in 1..Len(db_questions) : db_questions[i].page_number \in 1..db_total_pages
    /\ \A p \in 1..Len(file) :
          StoredOfPage(p) \in {0, Len(QuestionsOfPage(StrippedPage(PageOf(file[p])), p))}

\* a document of two chunks has completed with questions of its first and
\* of its last page stored
C22_Witness ==
    /\ db_status = "completed"
    /\ extracted = <<1, chunk_size + 1>>
    /\ db_total_pages = chunk_size + 1
    /\ StoredOfPage(1) > 0
    /\ StoredOfPage(chunk_size + 1) > 0


(***************************************************************************)
(* Properties of the server                                                *)
(***************************************************************************)
\* the step of process_pdf that a server step took, "" when it took none
StepTaken(before, after) ==
    IF Len(after) > Len(before) THEN after[Len(after)] ELSE ""

\* the steps of process_pdf that assign processing_status (lines 25, 56, 65)
StatusSteps == {"status", "completed", "failed"}

\* C23: the processing status of a document changes only when upload_pdf
\* creates the record as pending or in the steps of process_pdf that assign
\* it; Structure Recovery with chapter storage, the chunks with question
\* extraction and the resolver, the status endpoint and the file cleanup
\* leave it as it was
C23_StatusWrittenByOrchestrator ==
    [][/\ db_status' # db_status =>
             \/ pc = "idle" /\ db_status = "none" /\ db_status' = "pending"
             \/ StepTaken(trace, trace') \in StatusSteps
       /\ StepTaken(trace, trace') \in {"outline", "chunk", "page_count"} =>
             db_status' = db_status
       /\ polled' # polled => db_status' = db_status
       /\ pc2' # pc2 => db_status' = db_status]_vars

\* the endpoint answered processing after chapters and questions were stored
C23_Witness ==
    /\ polled = "processing"
    /\ db_status = "processing"
    /\ db_chapters # << >>
    /\ db_questions # << >>
    /\ Len(extracted) >= 1

\* the endpoint answered for a run that ended
C23_PolledCompletedWitness ==
    /\ polled = "completed"
    /\ db_status = "completed"
    /\ db_questions # << >>

\* C24: while the pipeline of the record is pending or processing, no step
\* of another upload request overwrites or removes the file at its
\* file_path
C24_FileUntouchedByOtherUpload ==
    [][(pc2' # pc2 /\ db_status \in {"pending", "processing"}) =>
          (file' = file /\ fileExists' = fileExists)]_vars

\* C24, the failure path: the except clause of the second upload_pdf never
\* removes the file of a record whose pipeline is pending or processing
C24_FailurePathKeepsFile ==
    [][(pc2 = "saved" /\ pc2' = "refused" /\ db_status \in {"pending", "processing"}) =>
          fileExists' = fileExists]_vars

====
